---------------------------- MODULE Spec2Model ----------------------------
(* Model of the OCP viewer backend (src/ocp_vscode/backend.py): the        *)
(* ViewerBackend event loop, its Model Store (self.model), its Tool State  *)
(* (self.activated_tool), the selection dispatcher, the three measurement  *)
(* handlers and get_center.                                                *)
(*                                                                         *)
(* Geometry values.  A Vector is modelled by its x coordinate, an integer  *)
(* number of thousandths (1234 is 1.234); the other coordinates are zero.  *)
(* Coordinates handed over by the kernel are even, so the halving done by  *)
(* get_center is exact.  A direction is an angle in thousandths of a       *)
(* degree in 0 .. 180000.  An optional Python value is a sequence: <<>> is *)
(* None and <<v>> is the value v.                                          *)
EXTENDS Integers, Sequences, FiniteSets, TLC

VARIABLES
    model,            \* self.model: [loaded, shapes]; loaded = FALSE is None
    activated_tool,   \* self.activated_tool; PyNone is Python's None
    ev,               \* the inbound event handled last
    pre,              \* [model, tool] as they were when that event arrived
    raised,           \* the exception error_handler caught for it, or NoError
    invoked,          \* the measurement handler it invoked, or NoHandler
    sent,             \* the responses send_response delivered for it
    running,          \* the listener loop is still accepting events
    prevRaised,       \* the event before that one raised a lookup error
    lastLiteral,      \* the activeTool literal received last, or NeverSet
    lastDecoded,      \* the model decoded last (by a load that succeeded)
    gc_shape,         \* get_center harness: the shape argument
    gc_mode,          \* get_center harness: the for_distance argument
    gc_pc,            \* get_center harness: "call" or "done"
    gc_result         \* get_center harness: what the call returned or raised

vars == <<model, activated_tool, ev, pre, raised, invoked, sent, running,
          prevRaised, lastLiteral, lastDecoded,
          gc_shape, gc_mode, gc_pc, gc_result>>

backendVars == <<model, activated_tool, ev, pre, raised, invoked, sent,
                 running, prevRaised, lastLiteral, lastDecoded>>

centerVars == <<gc_shape, gc_mode, gc_pc, gc_result>>

-----------------------------------------------------------------------------
(* Bounds of the model.                                                    *)

\* the longest selectedShapeIDs sequence an update event carries
MaxSelLen == 3

\* the largest number of circular boundary edges of a cylinder face
MaxCircles == 3

-----------------------------------------------------------------------------
(* Python values.                                                          *)

PyNone == "<None>"
NoError == "no error"
NoHandler == "no handler"
NeverSet == "<never>"

None == <<>>
Some(v) == <<v>>

\* class Tool
Tool_Distance == "DistanceMeasurement"
Tool_Properties == "PropertiesMeasurement"
Tool_Angle == "AngleMeasurement"

\* the activeTool literals the viewer may send, one of them unrecognized
ToolLiterals ==
    {"None", Tool_Distance, Tool_Properties, Tool_Angle, "SelectTool"}

ShapeIds == {"a", "b"}

\* sequences of shape ids of length 0 .. MaxSelLen
Selections == UNION {[1..n -> ShapeIds] : n \in 0..MaxSelLen}

-----------------------------------------------------------------------------
(* Shapes of the geometry kernel, as far as backend.py reads them.         *)

\* A boundary edge of kind circle, as shape.edges().filter_by(CIRCLE) lists it
Circle(c, r) == [arc_center |-> c, radius |-> r]

\* kind: the class isinstance() sees; geom: what geom_type() returns
\* center: shape.center(); arc_center, radius: of a circle or ellipse edge
\* circles: the circular boundary edges; dir: the tangent or normal direction
MkShape(kind, geom, center, arc_center, circles) ==
    [kind |-> kind, geom |-> geom, center |-> center,
     arc_center |-> arc_center, circles |-> circles,
     radius |-> 5000, length |-> 31416, width |-> 2004, area |-> 78536,
     volume |-> 1000008, dir |-> 0]

WithDir(shape, d) == [shape EXCEPT !.dir = d]

\* what a call returns, or the exception it raises
Ret(v) == [raised |-> NoError, v |-> v]
Raise(e) == [raised |-> e, v |-> 0]

\* round(value, 2) of set_precision, on thousandths: the nearest hundredth,
\* a tie going to the even hundredth
Round2(x) ==
    LET q == x \div 10
        r == x % 10
    IN  IF r < 5 THEN q * 10
        ELSE IF r > 5 THEN (q + 1) * 10
        ELSE IF q % 2 = 0 THEN q * 10 ELSE (q + 1) * 10

\* a variant of get_center that ignores the tool: always the point on the shape
get_center_ignoring_mode(shape, for_distance) ==
    IF shape.kind = "Face" /\ shape.geom = "CYLINDER" /\ for_distance
          /\ Len(shape.circles) = 0
    THEN Raise("IndexError")
    ELSE Ret(shape.center)

\* ViewerBackend.get_center
get_center(shape, for_distance) ==
    IF shape.kind = "Vertex" THEN Ret(shape.center)
    ELSE IF shape.kind = "Edge" /\ shape.geom \in {"CIRCLE", "ELLIPSE"}
    THEN Ret(IF for_distance THEN shape.arc_center ELSE shape.center)
    ELSE IF shape.kind = "Face" /\ shape.geom = "CYLINDER"
    THEN IF ~for_distance THEN Ret(shape.center)
         ELSE LET extremity_edges == shape.circles
              IN  IF Len(extremity_edges) = 2
                  THEN Ret(extremity_edges[1].arc_center
                           - (extremity_edges[1].arc_center
                              - extremity_edges[2].arc_center) \div 2)
                  ELSE IF Len(extremity_edges) = 0
                       THEN Raise("IndexError")   \* .first of an empty list
                       ELSE Ret(extremity_edges[1].arc_center)
    ELSE Ret(shape.center)

-----------------------------------------------------------------------------
(* Response records.  One record shape stands for the three dataclasses;   *)
(* a field a dataclass does not have is None.                              *)

Response(tool) ==
    [type |-> "backend_response", subtype |-> "tool_response",
     tool_type |-> tool,
     point1 |-> None, point2 |-> None, distance |-> None, angle |-> None,
     center |-> None, vertex_coords |-> None, length |-> None,
     width |-> None, area |-> None, volume |-> None, radius |-> None,
     geom_type |-> None]

RoundField(f) == IF f = None THEN None ELSE Some(Round2(f[1]))

\* set_precision: every float field, and every float inside a tuple field
set_precision(r) ==
    [r EXCEPT !.point1 = RoundField(@), !.point2 = RoundField(@),
              !.distance = RoundField(@), !.angle = RoundField(@),
              !.center = RoundField(@), !.vertex_coords = RoundField(@),
              !.length = RoundField(@), !.width = RoundField(@),
              !.area = RoundField(@), !.volume = RoundField(@),
              !.radius = RoundField(@)]

Abs(x) == IF x < 0 THEN -x ELSE x

\* str.capitalize() of a geom_type() label
Capitalize(g) ==
    CASE g = "VERTEX" -> "Vertex"
      [] g = "LINE" -> "Line"
      [] g = "CIRCLE" -> "Circle"
      [] g = "ELLIPSE" -> "Ellipse"
      [] g = "PLANE" -> "Plane"
      [] g = "CYLINDER" -> "Cylinder"
      [] g = "SOLID" -> "Solid"

\* what a handler did: the exception it raised, or the response it sent
Failed(e) == [raised |-> e, out |-> <<>>]
Sent(r) == [raised |-> NoError, out |-> <<r>>]

LookupErrors == {"TypeError: not subscriptable", "KeyError"}

\* self.model[shape_id]
Lookup(m, id) ==
    IF ~m.loaded THEN Raise("TypeError: not subscriptable")   \* None[id]
    ELSE IF id \notin DOMAIN m.shapes THEN Raise("KeyError")
    ELSE Ret(0)

\* fault is what goes wrong outside backend.py while a handler runs: "none",
\* "kernel" (the geometry kernel raises while the handler computes) or
\* "send" (the transport raises)
Faults == {"none", "kernel", "send"}

\* send_response(asdict(response), self.port)
send_response(r, fault) ==
    IF fault = "send" THEN Failed("TransportError") ELSE Sent(r)

\* a variant of handle_distance that takes the two shapes in the other order
handle_distance_swapped(m, id1, id2, fault) ==
    IF Lookup(m, id1).raised # NoError THEN Failed(Lookup(m, id1).raised)
    ELSE IF Lookup(m, id2).raised # NoError THEN Failed(Lookup(m, id2).raised)
    ELSE IF fault = "kernel" THEN Failed("KernelError")
    ELSE LET c1 == get_center(m.shapes[id2], TRUE)
             c2 == get_center(m.shapes[id1], TRUE)
         IN  IF c1.raised # NoError THEN Failed(c1.raised)
             ELSE IF c2.raised # NoError THEN Failed(c2.raised)
             ELSE send_response(
                      set_precision(
                          [Response(Tool_Distance) EXCEPT
                              !.point1 = Some(c1.v), !.point2 = Some(c2.v),
                              !.distance = Some(Abs(c2.v - c1.v))]),
                      fault)

\* ViewerBackend.handle_distance
handle_distance(m, id1, id2, fault) ==
    IF Lookup(m, id1).raised # NoError THEN Failed(Lookup(m, id1).raised)
    ELSE IF Lookup(m, id2).raised # NoError THEN Failed(Lookup(m, id2).raised)
    ELSE IF fault = "kernel" THEN Failed("KernelError")
    ELSE LET p1 == get_center(m.shapes[id1], TRUE)
             p2 == get_center(m.shapes[id2], TRUE)
         IN  IF p1.raised # NoError THEN Failed(p1.raised)
             ELSE IF p2.raised # NoError THEN Failed(p2.raised)
             ELSE send_response(
                      set_precision(
                          [Response(Tool_Distance) EXCEPT
                              !.point1 = Some(p1.v), !.point2 = Some(p2.v),
                              !.distance = Some(Abs(p2.v - p1.v))]),
                      fault)

\* the fields handle_properties fills in by the class of the shape;
\* a cylinder face with no circular edge has no .first to take a radius of
PropertiesOf(shape) ==
    LET r == Response(Tool_Properties)
    IN  CASE shape.kind = "Vertex" ->
               Ret([r EXCEPT !.vertex_coords = Some(shape.center)])
          [] shape.kind = "Edge" ->
               Ret([r EXCEPT
                      !.radius = IF shape.geom \in {"CIRCLE"}
                                 THEN Some(shape.radius) ELSE None,
                      !.length = Some(shape.length)])
          [] shape.kind = "Face" ->
               IF shape.geom = "CYLINDER" /\ Len(shape.circles) = 0
               THEN Raise("IndexError")
               ELSE Ret([r EXCEPT
                      !.radius = IF shape.geom = "CYLINDER"
                                 THEN Some(shape.circles[1].radius) ELSE None,
                      !.length = Some(shape.length),
                      !.width = Some(shape.width),
                      !.area = Some(shape.area)])
          [] shape.kind = "Solid" ->
               Ret([r EXCEPT !.volume = Some(shape.volume)])

\* ViewerBackend.handle_properties
handle_properties(m, shape_id, fault) ==
    IF Lookup(m, shape_id).raised # NoError
    THEN Failed(Lookup(m, shape_id).raised)
    ELSE IF fault = "kernel" THEN Failed("KernelError")
    ELSE LET shape == m.shapes[shape_id]
             filled == PropertiesOf(shape)
             geom_type == Capitalize(shape.geom)
             center == get_center(shape, FALSE)
         IN  IF filled.raised # NoError THEN Failed(filled.raised)
             ELSE IF center.raised # NoError THEN Failed(center.raised)
             ELSE send_response(
                      set_precision(
                          [filled.v EXCEPT
                              !.geom_type = IF geom_type # "Vertex"
                                            THEN Some(geom_type) ELSE None,
                              !.center = Some(center.v)]),
                      fault)

\* the directional reference handle_angle derives from a shape: a Plane for
\* a Face and for a circle or ellipse Edge, else shape % 0, the tangent
\* Vector of an Edge; Vertex and Solid have no % operator
Reference(shape) ==
    IF shape.kind = "Face" THEN Ret([type |-> "Plane", dir |-> shape.dir])
    ELSE IF shape.kind = "Edge" /\ shape.geom \in {"CIRCLE", "ELLIPSE"}
    THEN Ret([type |-> "Plane", dir |-> shape.dir])
    ELSE IF shape.kind = "Edge"
    THEN Ret([type |-> "Vector", dir |-> shape.dir])
    ELSE Raise("TypeError: unsupported operand")

\* Vector.get_angle, of two directions of one half plane
get_angle(d1, d2) == Abs(d1 - d2)

\* the angle handle_angle computes from the two references
AngleOf(first, second) ==
    Abs(IF first.type = second.type
        THEN get_angle(first.dir, second.dir)
        ELSE 90000 - get_angle(first.dir, second.dir))

\* ViewerBackend.handle_angle
handle_angle(m, id1, id2, fault) ==
    IF Lookup(m, id1).raised # NoError THEN Failed(Lookup(m, id1).raised)
    ELSE IF Lookup(m, id2).raised # NoError THEN Failed(Lookup(m, id2).raised)
    ELSE IF fault = "kernel" THEN Failed("KernelError")
    ELSE LET shape1 == m.shapes[id1]
             shape2 == m.shapes[id2]
             first == Reference(shape1)
             second == Reference(shape2)
             point1 == get_center(shape1, TRUE)
             point2 == get_center(shape2, TRUE)
         IN  IF first.raised # NoError THEN Failed(first.raised)
             ELSE IF second.raised # NoError THEN Failed(second.raised)
             ELSE IF point1.raised # NoError THEN Failed(point1.raised)
             ELSE IF point2.raised # NoError THEN Failed(point2.raised)
             ELSE send_response(
                      set_precision(
                          [Response(Tool_Angle) EXCEPT
                              !.angle = Some(AngleOf(first.v, second.v)),
                              !.point1 = Some(point1.v),
                              !.point2 = Some(point2.v)]),
                      fault)

-----------------------------------------------------------------------------
(* The selection dispatcher and the two state updates.                     *)

\* a state-update message: which of the two keys it carries, and their values
Changes ==
    {[hasTool |-> t # NeverSet, activeTool |-> t,
      hasSel |-> s # <<"-">>, selectedShapeIDs |-> IF s = <<"-">> THEN <<>> ELSE s] :
        t \in ToolLiterals \cup {NeverSet}, s \in Selections \cup {<<"-">>}}

NoChanges ==
    [hasTool |-> FALSE, activeTool |-> NeverSet,
     hasSel |-> FALSE, selectedShapeIDs |-> <<>>]

Ignored == [invoked |-> NoHandler, raised |-> NoError, out |-> <<>>]
Ran(handler, result) ==
    [invoked |-> handler, raised |-> result.raised, out |-> result.out]

\* a variant of handle_activated_tool that dispatches on the tool alone
handle_activated_tool_any_length(tool, m, changes, fault) ==
    IF ~changes.hasSel THEN Ignored
    ELSE LET selectedObjs == changes.selectedShapeIDs
         IN  IF Len(selectedObjs) = 0 THEN Ignored
             ELSE IF tool = Tool_Distance
             THEN Ran("handle_distance",
                      handle_distance(m, selectedObjs[1],
                                      selectedObjs[Len(selectedObjs)], fault))
             ELSE IF tool = Tool_Properties
             THEN Ran("handle_properties",
                      handle_properties(m, selectedObjs[1], fault))
             ELSE IF tool = Tool_Angle
             THEN Ran("handle_angle",
                      handle_angle(m, selectedObjs[1],
                                   selectedObjs[Len(selectedObjs)], fault))
             ELSE Ignored

\* ViewerBackend.handle_activated_tool
handle_activated_tool(tool, m, changes, fault) ==
    IF ~changes.hasSel THEN Ignored
    ELSE LET selectedObjs == changes.selectedShapeIDs
         IN  IF tool = Tool_Distance /\ Len(selectedObjs) = 2
             THEN Ran("handle_distance",
                      handle_distance(m, selectedObjs[1], selectedObjs[2],
                                      fault))
             ELSE IF tool = Tool_Properties /\ Len(selectedObjs) = 1
             THEN Ran("handle_properties",
                      handle_properties(m, selectedObjs[1], fault))
             ELSE IF tool = Tool_Angle /\ Len(selectedObjs) = 2
             THEN Ran("handle_angle",
                      handle_angle(m, selectedObjs[1], selectedObjs[2],
                                   fault))
             ELSE Ignored

\* a variant of the activeTool update that "None" does not clear
NewActivatedTool_never_cleared(changes, old) ==
    IF changes.hasTool /\ changes.activeTool # "None"
    THEN changes.activeTool ELSE old

\* a variant of the activeTool update that also keeps the literal "None"
NewActivatedTool_keeping_none(changes, old) ==
    IF changes.hasTool THEN changes.activeTool ELSE old

\* handle_event, the activeTool branch: the tool after the update
NewActivatedTool(changes, old) ==
    IF changes.hasTool
    THEN IF changes.activeTool # "None" THEN changes.activeTool ELSE PyNone
    ELSE old

\* a variant of the dispatch that runs under the tool active before the event
DispatchTool_stale(changes, old) == old

\* handle_event: the tool the selection of this event is dispatched under
DispatchTool(changes, old) == NewActivatedTool(changes, old)

-----------------------------------------------------------------------------
(* The Model Store.                                                        *)

NoModel == [loaded |-> FALSE, shapes |-> [i \in {} |-> 0]]
Loaded(shapes) == [loaded |-> TRUE, shapes |-> shapes]

\* the payloads of the new-model events, the last one malformed
Payloads ==
    {"p_vertices", "p_round", "p_flat", "p_caps", "p_solid", "p_open",
     "p_garbage"}

TwoShapes(sa, sb) == [i \in {"a", "b"} |-> IF i = "a" THEN sa ELSE sb]
OneShape(sa) == [i \in {"a"} |-> sa]

\* pickle.loads(base64.b64decode(raw_model)): the scene a payload encodes
Decode(raw) ==
    CASE raw = "p_vertices" ->
           Ret(Loaded(TwoShapes(
                 MkShape("Vertex", "VERTEX", 1234, 0, <<>>),
                 MkShape("Vertex", "VERTEX", 4006, 0, <<>>))))
      [] raw = "p_round" ->
           Ret(Loaded(TwoShapes(
                 WithDir(MkShape("Edge", "CIRCLE", 5002, 0, <<>>), 90000),
                 MkShape("Face", "CYLINDER", 1500, 0,
                         <<Circle(0, 5000), Circle(2468, 5000)>>))))
      [] raw = "p_flat" ->
           Ret(Loaded(TwoShapes(
                 WithDir(MkShape("Edge", "LINE", 1112, 0, <<>>), 30000),
                 WithDir(MkShape("Face", "PLANE", 2226, 0, <<>>), 90000))))
      [] raw = "p_caps" ->
           Ret(Loaded(TwoShapes(
                 MkShape("Face", "CYLINDER", 1002, 0, <<Circle(3338, 5000)>>),
                 MkShape("Face", "CYLINDER", 2004, 0,
                         <<Circle(0, 5000), Circle(1236, 5000),
                           Circle(2468, 5000)>>))))
      [] raw = "p_solid" ->
           Ret(Loaded(OneShape(
                 MkShape("Solid", "SOLID", 736, 0, <<>>))))
      [] raw = "p_open" ->
           Ret(Loaded(TwoShapes(
                 MkShape("Face", "CYLINDER", 1778, 0, <<>>),
                 WithDir(MkShape("Edge", "ELLIPSE", 3004, 1558, <<>>),
                         45000))))
      [] OTHER -> Raise("DecodeError")

\* a variant of load_model that drops the old model before it decodes
load_model_clearing_first(raw_model, old) ==
    IF Decode(raw_model).raised # NoError
    THEN [raised |-> Decode(raw_model).raised, model |-> NoModel]
    ELSE [raised |-> NoError, model |-> Decode(raw_model).v]

\* ViewerBackend.load_model: self.model is assigned once the decode returned
load_model(raw_model, old) ==
    IF Decode(raw_model).raised # NoError
    THEN [raised |-> Decode(raw_model).raised, model |-> old]
    ELSE [raised |-> NoError, model |-> Decode(raw_model).v]

\* a variant of error_handler that lets the exception end the loop
error_handler_reraising(exc) == exc = NoError

\* error_handler: whatever the handler raised is printed and swallowed, so
\* the listener goes on to the next event
error_handler(exc) == TRUE

-----------------------------------------------------------------------------
(* The event loop: listener(self.handle_event)() hands one inbound event   *)
(* after the other to handle_event, each handled to its end.               *)

Event(type, raw, changes, fault) ==
    [type |-> type, raw |-> raw, changes |-> changes, fault |-> fault]

Init ==
    /\ model = NoModel
    /\ activated_tool = PyNone
    /\ ev = Event("start", "", NoChanges, "none")
    /\ pre = [model |-> NoModel, tool |-> PyNone]
    /\ raised = NoError
    /\ invoked = NoHandler
    /\ sent = <<>>
    /\ running = TRUE
    /\ prevRaised = FALSE
    /\ lastLiteral = NeverSet
    /\ lastDecoded = NoModel
    /\ gc_shape = MkShape("Vertex", "VERTEX", 0, 0, <<>>)
    /\ gc_mode = TRUE
    /\ gc_pc = "idle"
    /\ gc_result = Ret(0)

\* handle_event, event_type == MessageType.data
DataEvent ==
    \E raw \in Payloads :
        LET loaded == load_model(raw, model)
        IN  /\ running
            /\ ev' = Event("data", raw, NoChanges, "none")
            /\ pre' = [model |-> model, tool |-> activated_tool]
            /\ model' = loaded.model
            /\ raised' = loaded.raised
            /\ running' = error_handler(loaded.raised)
            /\ invoked' = NoHandler
            /\ sent' = <<>>
            /\ prevRaised' = (raised \in LookupErrors)
            /\ lastDecoded' = IF Decode(raw).raised = NoError
                              THEN Decode(raw).v ELSE lastDecoded
            /\ UNCHANGED <<activated_tool, lastLiteral>>
            /\ UNCHANGED centerVars

\* handle_event, event_type == MessageType.updates
UpdateEvent ==
    \E changes \in Changes, fault \in Faults :
        LET tool == NewActivatedTool(changes, activated_tool)
            under == DispatchTool(changes, activated_tool)
            done == IF tool # PyNone
                    THEN handle_activated_tool(under, model, changes, fault)
                    ELSE Ignored
        IN  /\ running
            /\ fault = "none" \/ done.invoked # NoHandler
            /\ ev' = Event("updates", "", changes, fault)
            /\ pre' = [model |-> model, tool |-> activated_tool]
            /\ activated_tool' = tool
            /\ raised' = done.raised
            /\ running' = error_handler(done.raised)
            /\ invoked' = done.invoked
            /\ sent' = done.out
            /\ prevRaised' = (raised \in LookupErrors)
            /\ lastLiteral' = IF changes.hasTool
                              THEN changes.activeTool ELSE lastLiteral
            /\ UNCHANGED <<model, lastDecoded>>
            /\ UNCHANGED centerVars

\* handle_event, any other event_type: neither branch is taken
OtherEvent ==
    /\ running
    /\ ev' = Event("other", "", NoChanges, "none")
    /\ pre' = [model |-> model, tool |-> activated_tool]
    /\ raised' = NoError
    /\ running' = error_handler(NoError)
    /\ invoked' = NoHandler
    /\ sent' = <<>>
    /\ prevRaised' = (raised \in LookupErrors)
    /\ UNCHANGED <<model, activated_tool, lastLiteral, lastDecoded>>
    /\ UNCHANGED centerVars

Next == DataEvent \/ UpdateEvent \/ OtherEvent

Spec == Init /\ [][Next]_vars

-----------------------------------------------------------------------------
(* get_center on its own: every shape of the bounded kernel, both modes.   *)

Coords == {0, 1236, 2468}

\* the sequences of at most MaxCircles circular boundary edges
CircleLists ==
    UNION {[1..n -> {Circle(c, 5000) : c \in Coords}] : n \in 0..MaxCircles}

CenterShapes ==
    {MkShape("Vertex", "VERTEX", c, 0, <<>>) : c \in Coords}
    \cup {MkShape("Edge", "LINE", c, 0, <<>>) : c \in Coords}
    \cup {MkShape("Edge", g, c, a, <<>>) :
            g \in {"CIRCLE", "ELLIPSE"}, c \in Coords, a \in Coords}
    \cup {MkShape("Face", g, c, 0, l) :
            g \in {"PLANE", "CYLINDER"}, c \in Coords, l \in CircleLists}
    \cup {MkShape("Solid", "SOLID", c, 0, <<>>) : c \in Coords}

InitCenter ==
    /\ model = NoModel
    /\ activated_tool = PyNone
    /\ ev = Event("start", "", NoChanges, "none")
    /\ pre = [model |-> NoModel, tool |-> PyNone]
    /\ raised = NoError
    /\ invoked = NoHandler
    /\ sent = <<>>
    /\ running = TRUE
    /\ prevRaised = FALSE
    /\ lastLiteral = NeverSet
    /\ lastDecoded = NoModel
    /\ gc_shape \in CenterShapes
    /\ gc_mode \in BOOLEAN
    /\ gc_pc = "call"
    /\ gc_result = Ret(0)

\* one call self.get_center(shape, for_distance)
CallGetCenter ==
    /\ gc_pc = "call"
    /\ gc_result' = get_center(gc_shape, gc_mode)
    /\ gc_pc' = "done"
    /\ UNCHANGED <<gc_shape, gc_mode>>
    /\ UNCHANGED backendVars

NextCenter == CallGetCenter

SpecCenter == InitCenter /\ [][NextCenter]_vars

-----------------------------------------------------------------------------
(* What the specification says, in its own terms.                          *)

\* the recognized tool literals and the dispatch table of the specification
Tools == {Tool_Distance, Tool_Properties, Tool_Angle}

RequiredArity(t) ==
    CASE t = Tool_Distance -> 2
      [] t = Tool_Properties -> 1
      [] t = Tool_Angle -> 2

HandlerOf(t) ==
    CASE t = Tool_Distance -> "handle_distance"
      [] t = Tool_Properties -> "handle_properties"
      [] t = Tool_Angle -> "handle_angle"

\* the Tool State an activeTool literal stands for
ToolOfLiteral(l) == IF l \in {"None", NeverSet} THEN PyNone ELSE l

IsUpdate == ev.type = "updates"
CarriesTool == IsUpdate /\ ev.changes.hasTool
CarriesSelection == IsUpdate /\ ev.changes.hasSel
Selected == ev.changes.selectedShapeIDs

\* every selected id names a shape of the Model Store
SelectionResolves ==
    /\ model.loaded
    /\ \A i \in 1..Len(Selected) : Selected[i] \in DOMAIN model.shapes

-----------------------------------------------------------------------------
\* C1: a measurement handler runs only for an update event whose selection
\* has exactly the arity of the active tool, and it is that tool's handler;
\* a selection of any other length invokes no handler, emits no response
\* and raises no error.
C1_ArityGate ==
    /\ invoked # NoHandler =>
          /\ CarriesSelection
          /\ activated_tool \in Tools
          /\ invoked = HandlerOf(activated_tool)
          /\ Len(Selected) = RequiredArity(activated_tool)
    /\ (CarriesSelection /\ activated_tool \in Tools
            /\ Len(Selected) # RequiredArity(activated_tool)) =>
          /\ invoked = NoHandler
          /\ sent = <<>>
          /\ raised = NoError

\* a selection of two loaded shapes arrives under the Properties tool
C1_Witness ==
    /\ CarriesSelection
    /\ activated_tool = Tool_Properties
    /\ Len(Selected) = 2
    /\ SelectionResolves
    /\ invoked = NoHandler /\ sent = <<>>

\* C2: while the activeTool literal received last is "None", or none was
\* ever received, an update event invokes no handler and emits no response,
\* whatever selection it carries.
C2_NoToolNoDispatch ==
    (IsUpdate /\ lastLiteral \in {"None", NeverSet}) =>
        /\ invoked = NoHandler
        /\ sent = <<>>
        /\ raised = NoError

\* a tool was active, "None" was sent, and now a selection of one loaded
\* shape arrives with no activeTool key
C2_Witness ==
    /\ CarriesSelection /\ ~CarriesTool
    /\ lastLiteral = "None"
    /\ Len(Selected) = 1
    /\ SelectionResolves
    /\ sent = <<>>

\* C3 as stated: an event whose handling raises leaves the Model Store and
\* the Tool State as they were before the event.
C3_FailureLeavesStateAsBefore ==
    raised # NoError =>
        /\ model = pre.model
        /\ activated_tool = pre.tool

\* C3 amended: an event whose handling raises leaves the Model Store as it
\* was; the Tool State is as it was unless the event carried activeTool, and
\* then it is the carried tool (None for "None"), the update being complete.
C3_FailureLeavesModelAndAppliedTool ==
    raised # NoError =>
        /\ model = pre.model
        /\ activated_tool =
              IF CarriesTool THEN ToolOfLiteral(ev.changes.activeTool)
              ELSE pre.tool

\* an update event switches the tool and its handler then fails
C3_Witness ==
    /\ raised # NoError
    /\ CarriesTool /\ CarriesSelection
    /\ invoked # NoHandler
    /\ activated_tool # pre.tool
    /\ model = pre.model

\* C4: an activeTool literal that is neither "None" nor a recognized tool
\* fails with an InvalidToolError and does not become the active tool.
C4_UnknownToolRejected ==
    (CarriesTool /\ ev.changes.activeTool \notin Tools \cup {"None"}) =>
        /\ raised = "InvalidToolError"
        /\ activated_tool # ev.changes.activeTool

\* C5: a new-model event replaces the Model Store by the decoded payload and
\* leaves the Tool State; an update event leaves the Model Store and sets
\* the Tool State only from its activeTool key, whatever handler it ran;
\* so the Tool State is the activeTool update received last and the Model
\* Store is the model decoded last.
C5_FrameEffects ==
    /\ ev.type = "data" =>
          /\ activated_tool = pre.tool
          /\ raised = NoError => model = Decode(ev.raw).v
    /\ IsUpdate =>
          /\ model = pre.model
          /\ activated_tool =
                IF CarriesTool THEN ToolOfLiteral(ev.changes.activeTool)
                ELSE pre.tool
    /\ ev.type = "other" =>
          /\ model = pre.model
          /\ activated_tool = pre.tool
    /\ activated_tool = ToolOfLiteral(lastLiteral)
    /\ model = lastDecoded

\* a new model replaces an earlier one while a tool is active
C5_Witness ==
    /\ ev.type = "data" /\ raised = NoError
    /\ pre.model.loaded
    /\ model # pre.model
    /\ activated_tool = Tool_Angle

\* the points a response carries for the selection, by the tool's mode
CenterOfSelected(i, for_distance) ==
    get_center(model.shapes[Selected[i]], for_distance).v

\* C6 as stated: a response carries the tool that was active and the
\* centers of the selected shapes, in the order given and in the tool's mode.
C6_ResponseCarriesCenters ==
    sent # <<>> =>
        /\ sent[1].tool_type = activated_tool
        /\ activated_tool \in {Tool_Distance, Tool_Angle} =>
              /\ sent[1].point1 = Some(CenterOfSelected(1, TRUE))
              /\ sent[1].point2 = Some(CenterOfSelected(2, TRUE))
        /\ activated_tool = Tool_Properties =>
              sent[1].center = Some(CenterOfSelected(1, FALSE))

\* C6 amended: a response carries the tool that was active and the centers
\* of the selected shapes rounded to two decimals, in the order given and in
\* the tool's mode.
C6_ResponseCarriesRoundedCenters ==
    sent # <<>> =>
        /\ sent[1].tool_type = activated_tool
        /\ activated_tool \in {Tool_Distance, Tool_Angle} =>
              /\ sent[1].point1 = Some(Round2(CenterOfSelected(1, TRUE)))
              /\ sent[1].point2 = Some(Round2(CenterOfSelected(2, TRUE)))
        /\ activated_tool = Tool_Properties =>
              sent[1].center = Some(Round2(CenterOfSelected(1, FALSE)))

\* a Distance response for two different shapes whose centers differ, the
\* first of them not a whole number of hundredths
C6_Witness ==
    /\ sent # <<>>
    /\ activated_tool = Tool_Distance
    /\ Selected[1] # Selected[2]
    /\ sent[1].point1 # sent[1].point2
    /\ sent[1].point1 # Some(CenterOfSelected(1, TRUE))

-----------------------------------------------------------------------------
(* Center resolution, checked under SpecCenter.                            *)

IsCylinderFace(shape) == shape.kind = "Face" /\ shape.geom = "CYLINDER"
IsRoundEdge(shape) ==
    shape.kind = "Edge" /\ shape.geom \in {"CIRCLE", "ELLIPSE"}

\* a cylinder face in distance mode with neither one nor two circular edges:
\* the combination rule 3 of the specification leaves open
Uncovered(shape, for_distance) ==
    IsCylinderFace(shape) /\ for_distance /\ Len(shape.circles) \notin {1, 2}

\* the point the rules of the specification give, in their priority order
RuleCenter(shape, for_distance) ==
    CASE shape.kind = "Vertex" -> shape.center
      [] IsRoundEdge(shape) ->
           IF for_distance THEN shape.arc_center ELSE shape.center
      [] IsCylinderFace(shape) /\ ~for_distance -> shape.center
      [] IsCylinderFace(shape) /\ for_distance /\ Len(shape.circles) = 2 ->
           (shape.circles[1].arc_center + shape.circles[2].arc_center) \div 2
      [] IsCylinderFace(shape) /\ for_distance /\ Len(shape.circles) = 1 ->
           shape.circles[1].arc_center
      [] OTHER -> shape.center

\* C7: for every shape and mode the rules speak of, get_center returns the
\* point the rules give: the vertex itself; the arc center or the curve
\* midpoint of a circle or ellipse edge; the face midpoint, the point halfway
\* between two arc centers or the single arc center of a cylinder face; the
\* generic center of every other edge, face and solid.
C7_CenterFollowsRules ==
    (gc_pc = "done" /\ ~Uncovered(gc_shape, gc_mode)) =>
        gc_result = Ret(RuleCenter(gc_shape, gc_mode))

\* a cylinder face between two different circles, in distance mode: the
\* result is the axis midpoint, which is neither circle nor the face midpoint
C7_Witness ==
    /\ gc_pc = "done"
    /\ IsCylinderFace(gc_shape) /\ gc_mode
    /\ Len(gc_shape.circles) = 2
    /\ gc_result.raised = NoError
    /\ gc_result.v # gc_shape.center
    /\ gc_result.v # gc_shape.circles[1].arc_center
    /\ gc_result.v # gc_shape.circles[2].arc_center

\* C8: on a combination the rules do not cover, a cylinder face in distance
\* mode with no circular edge or with three or more included, get_center
\* does not raise and returns the generic center of the shape.
C8_UncoveredFallsBackToCenter ==
    (gc_pc = "done" /\ Uncovered(gc_shape, gc_mode)) =>
        gc_result = Ret(gc_shape.center)

-----------------------------------------------------------------------------
\* a shape the tool can measure when the kernel and the transport do not fail
Measurable(tool, shape) ==
    /\ ~(IsCylinderFace(shape) /\ Len(shape.circles) = 0)
    /\ tool = Tool_Angle => shape.kind \in {"Edge", "Face"}

\* a selection of the tool's arity, dispatched to the tool's handler
MatchingSelection ==
    /\ CarriesSelection
    /\ activated_tool \in Tools
    /\ Len(Selected) = RequiredArity(activated_tool)

\* C9: a selection of matching arity that names an absent shape id, or that
\* arrives before any model was loaded, emits no response and raises a
\* lookup error that is caught; the loop goes on, the next event can be
\* handled, and a selection of measurable loaded shapes gets its response
\* whether or not the event before it failed.
C9_LookupFailureIsolated ==
    /\ running
    /\ (MatchingSelection /\ ~SelectionResolves) =>
          /\ sent = <<>>
          /\ raised \in LookupErrors
          /\ model = pre.model
          /\ ENABLED DataEvent /\ ENABLED UpdateEvent
    /\ (MatchingSelection /\ SelectionResolves /\ ev.fault = "none"
          /\ \A i \in 1..Len(Selected) :
                Measurable(activated_tool, model.shapes[Selected[i]])) =>
          /\ raised = NoError
          /\ Len(sent) = 1

\* a lookup failed, and the very next event is a selection that is answered
C9_Witness ==
    /\ prevRaised
    /\ MatchingSelection /\ SelectionResolves
    /\ Len(sent) = 1
    /\ running

\* C10: in an update event that carries both keys the selection is
\* dispatched under the tool the event names: not at all for "None", to the
\* handler and with the arity of the new tool otherwise; and no event emits
\* more than one response.
C10_ToolAppliedBeforeDispatch ==
    /\ Len(sent) <= 1
    /\ (CarriesTool /\ CarriesSelection) =>
          LET new == ev.changes.activeTool
          IN  /\ new = "None" => invoked = NoHandler /\ sent = <<>>
              /\ invoked # NoHandler =>
                    /\ new \in Tools
                    /\ invoked = HandlerOf(new)
                    /\ Len(Selected) = RequiredArity(new)
              /\ (new \in Tools /\ Len(Selected) = RequiredArity(new)) =>
                    invoked = HandlerOf(new)

\* Properties was active; one event names Distance and selects two shapes,
\* and the Distance response is sent
C10_Witness ==
    /\ CarriesTool /\ CarriesSelection
    /\ pre.tool = Tool_Properties
    /\ ev.changes.activeTool = Tool_Distance
    /\ Len(Selected) = 2
    /\ invoked = "handle_distance"
    /\ Len(sent) = 1

=============================================================================
